---- MODULE Spec2Model ----
(***************************************************************************)
(* qiskit_iqm.iqm_job.IQMJob: the job object of the Qiskit-on-IQM adapter. *)
(*                                                                         *)
(* Two parts are modelled:                                                 *)
(*   - _format_iqm_result, the pure reassembly of the measurement map of a *)
(*     run into per-shot bitstrings (operators, exercised by SpecFormat);  *)
(*   - the job object with its cache _result and the operations submit,    *)
(*     cancel, result and status over an external client (Spec).           *)
(*                                                                         *)
(* Conventions.  A Python str is a sequence of one-character strings, so   *)
(* that positions in a bitstring can be inspected.  A Python dict is kept  *)
(* in insertion order: the measurement map is a sequence of <<key, value>> *)
(* pairs with pairwise distinct keys.  A measurement value is the list of  *)
(* one-element rows [[b1], [b2], ...] the client delivers; it is modelled  *)
(* by the sequence <<b1, b2, ...>> of the bits in column 0.  An optional   *)
(* Python value (None or a value) is a record [set, val].                  *)
(***************************************************************************)
EXTENDS Integers, Sequences, FiniteSets, TLC

VARIABLES
    metadata,          \* JobV1.metadata: the kwargs of the job ('shots' or nothing)
    _result,           \* IQMJob._result: None, or the cached list of bitstrings
    run_status,        \* remote: the RunStatus of the run at the server
    run_measurements,  \* remote: the measurements the run delivers once ready
    ever_ready,        \* history: the remote run has been ready at some time
    last,              \* observation: the most recent operation and its outcome
    first_result,      \* history: what the first two result() calls did
    status_done,       \* history: a status() call has returned DONE
    fmt                \* observation: outcome of a direct _format_iqm_result call

vars == <<metadata, _result, run_status, run_measurements, ever_ready, last,
          first_result, status_done, fmt>>

----------------------------------------------------------------------------
(* Bounds of the model *)

\* Shot counts and column lengths range over 0..MaxShots.
MaxShots == 2

\* Largest number of raw-map entries in a run polled by a job (Spec).
MaxJobEntries == 1

\* The classical registers of the circuit under test: register creg_idx
\* (counted from 0) has CregLens[creg_idx + 1] bits.
CregLens == <<1, 2>>

----------------------------------------------------------------------------
(* Python values *)

None == [set |-> FALSE, val |-> <<>>]

Some(v) == [set |-> TRUE, val |-> v]

\* Mutant: the cache test never succeeds.
truthy_never(opt) == FALSE

\* Truth value of an optional list, as tested by "if self._result": None
\* and the empty list are both false.
truthy(opt) == opt.set /\ Len(opt.val) > 0

Bits == {0, 1}

\* str() of a measured bit.
str(b) == IF b = 0 THEN "0" ELSE "1"

\* seq[::-1]
reversed(seq) == [i \in 1..Len(seq) |-> seq[Len(seq) + 1 - i]]

\* sep.join(parts), the parts and the result being strings (character sequences).
RECURSIVE join(_, _)
join(sep, parts) ==
    IF Len(parts) = 0 THEN <<>>
    ELSE IF Len(parts) = 1 THEN parts[1]
    ELSE parts[1] \o sep \o join(sep, Tail(parts))

\* Mutant: sorted(keys), ascending.
RECURSIVE sorted_forward(_)
sorted_forward(S) ==
    IF S = {} THEN <<>>
    ELSE LET m == CHOOSE x \in S : \A y \in S : x <= y
         IN <<m>> \o sorted_forward(S \ {m})

\* sorted(keys, reverse=True) on a set of integers.
RECURSIVE sorted_reverse(_)
sorted_reverse(S) ==
    IF S = {} THEN <<>>
    ELSE LET m == CHOOSE x \in S : \A y \in S : y <= x
         IN <<m>> \o sorted_reverse(S \ {m})

----------------------------------------------------------------------------
(* Measurement keys *)

\* A measurement key string "<creg_name>_<creg_len>_<creg_idx>_<clbit_idx>",
\* kept as the tuple of its numeric parts <<creg_len, creg_idx, clbit_idx>>.
KeyStrings ==
    UNION { { <<CregLens[i + 1], i, b>> : b \in 0..(CregLens[i + 1] - 1) } :
            i \in 0..(Len(CregLens) - 1) }

\* MeasurementKey.from_string
from_string(k) == [creg_len |-> k[1], creg_idx |-> k[2], clbit_idx |-> k[3]]

----------------------------------------------------------------------------
(* _format_iqm_result *)

\* Mutant: the empty list taken for a 0 x 1 array.
np_shape_2d(v) == <<Len(v), 1>>

\* np.array(v, dtype=int).shape for a list v of one-element rows: a list of
\* n >= 1 rows is an n x 1 array, the empty list is a 1-d array of length 0.
np_shape(v) == IF Len(v) = 0 THEN <<0>> ELSE <<Len(v), 1>>

\* Mutant: the grid starts filled with ones.
np_ones(rows, cols) ==
    [shape |-> <<rows, cols>>, data |-> [s \in 1..rows |-> [c \in 1..cols |-> 1]]]

\* np.zeros((rows, cols), dtype=int): the array's shape and its rows.
np_zeros(rows, cols) ==
    [shape |-> <<rows, cols>>, data |-> [s \in 1..rows |-> [c \in 1..cols |-> 0]]]

\* Mutant: the default replaces the grid already stored under the key.
setdefault_overwrite(d, k, default) == (k :> default) @@ d

\* dict.setdefault(k, default), as the dict afterwards
setdefault(d, k, default) == IF k \in DOMAIN d THEN d ELSE d @@ (k :> default)

\* creg[:, c] = res
set_column(creg, c, res) ==
    [creg EXCEPT !.data = [s \in DOMAIN @ |-> [@[s] EXCEPT ![c + 1] = res[s]]]]

\* The validation and grouping loop over iqm_result.measurements.items(),
\* from its i-th item on, with the dict measurements built so far.
RECURSIVE group_cregs(_, _, _, _)
group_cregs(items, i, shots, measurements) ==
    IF i > Len(items)
    THEN [kind |-> "ok", cregs |-> measurements, key |-> None]
    ELSE LET mk == from_string(items[i][1])
             res == items[i][2]
         IN IF np_shape(res) # <<shots, 1>>
            THEN [kind |-> "ValueError", cregs |-> measurements, key |-> Some(mk)]
            ELSE LET d == setdefault(measurements, mk.creg_idx,
                                     np_zeros(shots, mk.creg_len))
                     creg == d[mk.creg_idx]
                 IN IF mk.clbit_idx >= creg.shape[2]
                    THEN [kind |-> "IndexError", cregs |-> measurements,
                          key |-> Some(mk)]
                    ELSE group_cregs(items, i + 1, shots,
                             [d EXCEPT ![mk.creg_idx] =
                                  set_column(creg, mk.clbit_idx, res)])

\* The returned list: one string per shot, registers in descending creg_idx,
\* each register's row reversed and its bits joined without a separator.
format_shots(measurements, shots) ==
    LET order == sorted_reverse(DOMAIN measurements)
    IN [s \in 1..shots |->
          join(<<" ">>,
               [j \in 1..Len(order) |->
                   LET row == reversed(measurements[order[j]].data[s])
                   IN [c \in 1..Len(row) |-> str(row[c])]])]

\* self.metadata.get('shots', len(next(iter(measurements.values())))): the
\* default is evaluated before get is called, so an empty map raises
\* StopIteration whether or not the metadata has 'shots'.
get_shots(md, items) ==
    IF Len(items) = 0 THEN None
    ELSE IF "shots" \in DOMAIN md THEN Some(md.shots)
    ELSE Some(Len(items[1][2]))

\* IQMJob._format_iqm_result(iqm_result), on iqm_result.measurements.
\* kind: "ok" or the exception raised; ret: the list returned, if any; key:
\* the measurement key the error message names; shots: the local shots.
_format_iqm_result(md, items) ==
    LET shots == get_shots(md, items)
    IN IF ~shots.set
       THEN [kind |-> "StopIteration", ret |-> None, key |-> None, shots |-> None]
       ELSE LET g == group_cregs(items, 1, shots.val, <<>>)
            IN IF g.kind # "ok"
               THEN [kind |-> g.kind, ret |-> None, key |-> g.key, shots |-> shots]
               ELSE [kind |-> "ok", ret |-> Some(format_shots(g.cregs, shots.val)),
                     key |-> None, shots |-> shots]

----------------------------------------------------------------------------
(* Inputs *)

\* The columns a measurement can hold: 0..MaxShots bits.
Columns == UNION { [1..n -> Bits] : n \in 0..MaxShots }

\* The measurement maps with exactly n entries: pairwise distinct keys of the
\* circuit's registers, in any order, each with any column.
RawMapsOfLen(n) ==
    { m \in [1..n -> KeyStrings \X Columns] :
        \A i, j \in 1..n : (i # j) => (m[i][1] # m[j][1]) }

RawMaps == UNION { RawMapsOfLen(n) : n \in 0..Cardinality(KeyStrings) }

JobRawMaps == UNION { RawMapsOfLen(n) : n \in 0..MaxJobEntries }

\* The job's metadata: without 'shots', or with a shot count.
NoMetadata == [k \in {} |-> 0]

Metadatas == {NoMetadata} \cup { [shots |-> n] : n \in 0..MaxShots }

NoFmt == [called |-> FALSE, kind |-> "none", ret |-> None, key |-> None,
          shots |-> None]

\* What an operation did: the operation, "ok" or the exception it raised, what
\* it returned, the external client calls it made, the number of reassembly
\* passes it ran, the status of the record get_run gave it, whether a
\* status() call had returned DONE before it began, and whether a result was
\* cached when it began.
Obs(op, outcome, sret, rret, calls, formats, polled, after_done, cached) ==
    [op |-> op, outcome |-> outcome, status_ret |-> sret, result_ret |-> rret,
     calls |-> calls, formats |-> formats, polled |-> polled,
     after_done |-> after_done, cached |-> cached]

NoLast == Obs("none", "none", "none", None, <<>>, 0, "none", FALSE, FALSE)

----------------------------------------------------------------------------
(* SpecFormat: _format_iqm_result applied to every input *)

InitFormat ==
    /\ metadata \in Metadatas
    /\ run_measurements \in RawMaps
    /\ run_status = "ready"
    /\ ever_ready = TRUE
    /\ _result = None
    /\ last = NoLast
    /\ first_result = <<>>
    /\ status_done = FALSE
    /\ fmt = NoFmt

format_call ==
    /\ ~fmt.called
    /\ fmt' = [called |-> TRUE] @@ _format_iqm_result(metadata, run_measurements)
    /\ UNCHANGED <<metadata, _result, run_status, run_measurements, ever_ready,
                   last, first_result, status_done>>

NextFormat == format_call

SpecFormat == InitFormat /\ [][NextFormat]_vars

----------------------------------------------------------------------------
(* The external client and the remote run *)

RunStatuses == {"pending", "ready", "failed"}

\* The job id, a string that parses as a UUID.
JobId == "job-uuid"

\* What a client call can do: raise an error of the client's own, or return
\* the run's record (status, and the measurements once the run is ready).
ClientRaises == [raised |-> TRUE, status |-> "none", measurements |-> None]

RunRecord ==
    [raised |-> FALSE, status |-> run_status,
     measurements |-> IF run_status = "ready" THEN Some(run_measurements)
                      ELSE None]

\* Mutant: every status but pending taken for ready.
is_ready_not_pending(r) == r.status # "pending"

\* result.status == RunStatus.READY
is_ready(r) == r.status = "ready"

\* self._client.get_run(uuid): one round trip, whatever the run's status.
get_run == {ClientRaises, RunRecord}

\* self._client.wait_for_results(uuid): returns only once the run is ready;
\* until then it blocks, or gives up with an error of the client's own.
wait_for_results ==
    {ClientRaises} \cup (IF run_status = "ready" THEN {RunRecord} ELSE {})

\* The server, which this module does not control, moves the run to any
\* other status.
remote_step ==
    /\ \E s \in RunStatuses \ {run_status} :
          /\ run_status' = s
          /\ ever_ready' = (ever_ready \/ s = "ready")
    /\ UNCHANGED <<metadata, _result, run_measurements, last, first_result,
                   status_done, fmt>>

----------------------------------------------------------------------------
(* The result object *)

\* Mutant: every element counted once, however often it occurs.
Counter_presence(seq) == [x \in {seq[i] : i \in DOMAIN seq} |-> 1]

\* collections.Counter(list): one pass over the list, counting each element.
RECURSIVE Counter(_)
Counter(seq) ==
    IF Len(seq) = 0 THEN <<>>
    ELSE LET c == Counter(SubSeq(seq, 1, Len(seq) - 1))
             x == seq[Len(seq)]
         IN IF x \in DOMAIN c THEN [c EXCEPT ![x] = @ + 1] ELSE c @@ (x :> 1)

\* qiskit.result.Counts(data): keys that are bitstrings are kept as they are.
Counts(data) == data

\* Result.from_dict(result_dict), without 'date' (date.today(), the wall
\* clock) and the three backend fields that are None.
result_dict(memory) ==
    [job_id |-> JobId,
     success |-> TRUE,
     results |-> << [shots |-> Len(memory),
                     success |-> TRUE,
                     data |-> [memory |-> memory,
                               counts |-> Counts(Counter(memory))]] >>]

----------------------------------------------------------------------------
(* IQMJob *)

\* IQMJob.__init__: no cached result; the remote run has just been submitted.
Init ==
    /\ metadata \in Metadatas
    /\ run_measurements \in JobRawMaps
    /\ run_status = "pending"
    /\ ever_ready = FALSE
    /\ _result = None
    /\ last = NoLast
    /\ first_result = <<>>
    /\ status_done = FALSE
    /\ fmt = NoFmt

\* IQMJob.submit
submit ==
    /\ last' = Obs("submit", "NotImplementedError", "none", None, <<>>, 0,
                   "none", status_done, _result.set)
    /\ UNCHANGED <<metadata, _result, run_status, run_measurements, ever_ready,
                   first_result, status_done, fmt>>

\* Mutant: cancel() returns None without raising.
cancel_silently ==
    /\ last' = Obs("cancel", "ok", "none", None, <<>>, 0, "none", status_done,
                   _result.set)
    /\ UNCHANGED <<metadata, _result, run_status, run_measurements, ever_ready,
                   first_result, status_done, fmt>>

\* IQMJob.cancel
cancel ==
    /\ last' = Obs("cancel", "NotImplementedError", "none", None, <<>>, 0,
                   "none", status_done, _result.set)
    /\ UNCHANGED <<metadata, _result, run_status, run_measurements, ever_ready,
                   first_result, status_done, fmt>>

\* The first two result() calls, as they happened: what each returned or
\* raised, its client calls and reassembly passes, and whether a result was
\* cached when it began.
record_result(o) ==
    IF Len(first_result) < 2
    THEN Append(first_result,
                [outcome |-> o.outcome, result_ret |-> o.result_ret,
                 calls |-> o.calls, formats |-> o.formats, cached |-> o.cached])
    ELSE first_result

\* Mutant: result() reassembles into a local and never stores the cache.
result_uncached ==
    /\ \E r \in wait_for_results :
          IF r.raised
          THEN last' = Obs("result", "ClientError", "none", None,
                          <<"wait_for_results">>, 0, "none", status_done,
                          _result.set)
          ELSE LET f == _format_iqm_result(metadata, r.measurements.val)
               IN IF f.kind # "ok"
                  THEN last' = Obs("result", f.kind, "none", None,
                                  <<"wait_for_results">>, 1, "none",
                                  status_done, _result.set)
                  ELSE last' = Obs("result", "ok", "none",
                                  Some(result_dict(f.ret.val)),
                                  <<"wait_for_results">>, 1, "none",
                                  status_done, _result.set)
    /\ first_result' = record_result(last')
    /\ UNCHANGED <<metadata, _result, run_status, run_measurements, ever_ready,
                   status_done, fmt>>

\* Mutant: result() calls wait_for_results a second time when the first call
\* raised, and gives up only then.
result_retries ==
    /\ IF ~truthy(_result)
       THEN \E r \in wait_for_results :
              IF r.raised
              THEN /\ last' = Obs("result", "ClientError", "none", None,
                                  <<"wait_for_results", "wait_for_results">>,
                                  0, "none", status_done, _result.set)
                   /\ UNCHANGED _result
              ELSE LET f == _format_iqm_result(metadata, r.measurements.val)
                   IN IF f.kind # "ok"
                      THEN /\ last' = Obs("result", f.kind, "none", None,
                                          <<"wait_for_results">>, 1, "none",
                                          status_done, _result.set)
                           /\ UNCHANGED _result
                      ELSE /\ _result' = f.ret
                           /\ last' = Obs("result", "ok", "none",
                                          Some(result_dict(f.ret.val)),
                                          <<"wait_for_results">>, 1, "none",
                                          status_done, _result.set)
       ELSE /\ last' = Obs("result", "ok", "none", Some(result_dict(_result.val)),
                           <<>>, 0, "none", status_done, _result.set)
            /\ UNCHANGED _result
    /\ first_result' = record_result(last')
    /\ UNCHANGED <<metadata, run_status, run_measurements, ever_ready,
                   status_done, fmt>>

\* IQMJob.result
result ==
    /\ IF ~truthy(_result)
       THEN \E r \in wait_for_results :
              IF r.raised
              THEN /\ last' = Obs("result", "ClientError", "none", None,
                                  <<"wait_for_results">>, 0, "none", status_done,
                                  _result.set)
                   /\ UNCHANGED _result
              ELSE LET f == _format_iqm_result(metadata, r.measurements.val)
                   IN IF f.kind # "ok"
                      THEN /\ last' = Obs("result", f.kind, "none", None,
                                          <<"wait_for_results">>, 1, "none",
                                          status_done, _result.set)
                           /\ UNCHANGED _result
                      ELSE /\ _result' = f.ret
                           /\ last' = Obs("result", "ok", "none",
                                          Some(result_dict(f.ret.val)),
                                          <<"wait_for_results">>, 1, "none",
                                          status_done, _result.set)
       ELSE /\ last' = Obs("result", "ok", "none", Some(result_dict(_result.val)),
                           <<>>, 0, "none", status_done, _result.set)
            /\ UNCHANGED _result
    /\ first_result' = record_result(last')
    /\ UNCHANGED <<metadata, run_status, run_measurements, ever_ready,
                   status_done, fmt>>

\* Mutant: status() asks the client with the blocking wait_for_results.
status_waits ==
    /\ IF truthy(_result)
       THEN /\ last' = Obs("status", "ok", "DONE", None, <<>>, 0, "none",
                           status_done, _result.set)
            /\ UNCHANGED _result
       ELSE \E r \in wait_for_results :
              IF r.raised
              THEN /\ last' = Obs("status", "ClientError", "none", None,
                                  <<"wait_for_results">>, 0, "none",
                                  status_done, _result.set)
                   /\ UNCHANGED _result
              ELSE LET f == _format_iqm_result(metadata, r.measurements.val)
                   IN IF f.kind # "ok"
                      THEN /\ last' = Obs("status", f.kind, "none", None,
                                          <<"wait_for_results">>, 1, r.status,
                                          status_done, _result.set)
                           /\ UNCHANGED _result
                      ELSE /\ _result' = f.ret
                           /\ last' = Obs("status", "ok", "DONE", None,
                                          <<"wait_for_results">>, 1, r.status,
                                          status_done, _result.set)
    /\ status_done' = (status_done \/ last'.status_ret = "DONE")
    /\ UNCHANGED <<metadata, run_status, run_measurements, ever_ready,
                   first_result, fmt>>

\* Mutant: status() caches what was reassembled before the shape mismatch was
\* met, an empty list of rows.
status_caches_partial ==
    /\ IF truthy(_result)
       THEN /\ last' = Obs("status", "ok", "DONE", None, <<>>, 0, "none",
                           status_done, _result.set)
            /\ UNCHANGED _result
       ELSE \E r \in get_run :
              IF r.raised
              THEN /\ last' = Obs("status", "ClientError", "none", None,
                                  <<"get_run">>, 0, "none", status_done,
                                  _result.set)
                   /\ UNCHANGED _result
              ELSE IF is_ready(r)
              THEN LET f == _format_iqm_result(metadata, r.measurements.val)
                   IN IF f.kind # "ok"
                      THEN /\ last' = Obs("status", f.kind, "none", None,
                                          <<"get_run">>, 1, r.status,
                                          status_done, _result.set)
                           /\ _result' = Some(<<"">>)
                      ELSE /\ _result' = f.ret
                           /\ last' = Obs("status", "ok", "DONE", None,
                                          <<"get_run">>, 1, r.status,
                                          status_done, _result.set)
              ELSE /\ last' = Obs("status", "ok", "RUNNING", None, <<"get_run">>,
                                  0, r.status, status_done, _result.set)
                   /\ UNCHANGED _result
    /\ status_done' = (status_done \/ last'.status_ret = "DONE")
    /\ UNCHANGED <<metadata, run_status, run_measurements, ever_ready,
                   first_result, fmt>>

\* IQMJob.status
status ==
    /\ IF truthy(_result)
       THEN /\ last' = Obs("status", "ok", "DONE", None, <<>>, 0, "none",
                           status_done, _result.set)
            /\ UNCHANGED _result
       ELSE \E r \in get_run :
              IF r.raised
              THEN /\ last' = Obs("status", "ClientError", "none", None,
                                  <<"get_run">>, 0, "none", status_done,
                                  _result.set)
                   /\ UNCHANGED _result
              ELSE IF is_ready(r)
              THEN LET f == _format_iqm_result(metadata, r.measurements.val)
                   IN IF f.kind # "ok"
                      THEN /\ last' = Obs("status", f.kind, "none", None,
                                          <<"get_run">>, 1, r.status,
                                          status_done, _result.set)
                           /\ UNCHANGED _result
                      ELSE /\ _result' = f.ret
                           /\ last' = Obs("status", "ok", "DONE", None,
                                          <<"get_run">>, 1, r.status,
                                          status_done, _result.set)
              ELSE /\ last' = Obs("status", "ok", "RUNNING", None, <<"get_run">>,
                                  0, r.status, status_done, _result.set)
                   /\ UNCHANGED _result
    /\ status_done' = (status_done \/ last'.status_ret = "DONE")
    /\ UNCHANGED <<metadata, run_status, run_measurements, ever_ready,
                   first_result, fmt>>

Next == submit \/ cancel \/ result \/ status \/ remote_step

Spec == Init /\ [][Next]_vars

----------------------------------------------------------------------------
(* SpecPoll: a caller that keeps calling status() *)

\* A status() call that the client answers rather than fails.
poll == status /\ last'.outcome # "ClientError"

NextPoll == status \/ remote_step

\* The caller's loop goes on calling status(), and the client does not fail
\* every call for ever.
SpecPoll == Init /\ [][NextPoll]_vars /\ WF_vars(poll)

----------------------------------------------------------------------------
(* Properties of the job (Spec) *)

\* C1.  Status terminal transition: a status() call made after some status()
\* call has returned DONE returns DONE and makes no external client call
\* (neither get_run nor wait_for_results), whatever the server has done to
\* the run in the meantime.
C1_StatusTerminal ==
    (last.op = "status" /\ last.after_done) =>
        /\ last.outcome = "ok"
        /\ last.status_ret = "DONE"
        /\ last.calls = <<>>

\* A status() call after DONE, made when the run is no longer ready.
C1_Witness ==
    /\ last.op = "status"
    /\ last.after_done
    /\ last.status_ret = "DONE"
    /\ run_status # "ready"

\* The result() calls recorded so far that made the client wait, and the
\* reassembly passes they ran.
ResultWaits ==
    Cardinality({i \in DOMAIN first_result :
                    first_result[i].calls = <<"wait_for_results">>})

ResultFormats ==
    IF Len(first_result) = 0 THEN 0
    ELSE IF Len(first_result) = 1 THEN first_result[1].formats
    ELSE first_result[1].formats + first_result[2].formats

\* The fields of a structured result that C2 compares.
SameResult(a, b) ==
    /\ a.job_id = b.job_id
    /\ a.success = b.success
    /\ a.results[1].shots = b.results[1].shots
    /\ a.results[1].data.memory = b.results[1].data.memory
    /\ a.results[1].data.counts = b.results[1].data.counts

TwoResultCalls == Len(first_result) = 2 /\ first_result[1].outcome = "ok"

\* C2 as stated.  Idempotent result caching: when the first result() call
\* returns, the second returns the same structured result, and the two calls
\* together make exactly one wait_for_results call and run exactly one
\* reassembly pass.
C2_Original ==
    TwoResultCalls =>
        /\ first_result[2].outcome = "ok"
        /\ SameResult(first_result[1].result_ret.val,
                      first_result[2].result_ret.val)
        /\ ResultWaits = 1
        /\ ResultFormats = 1

\* C2 as amended.  When the first result() call returns, the second returns
\* the same structured result without any client call or reassembly pass; the
\* two calls together make exactly one wait_for_results call and one
\* reassembly pass if no result was cached when the first call began, and
\* none at all if a status() call had cached the result before.
C2_ResultCachedOnce ==
    TwoResultCalls =>
        /\ first_result[2].outcome = "ok"
        /\ SameResult(first_result[1].result_ret.val,
                      first_result[2].result_ret.val)
        /\ first_result[2].calls = <<>>
        /\ first_result[2].formats = 0
        /\ IF first_result[1].cached
           THEN ResultWaits = 0 /\ ResultFormats = 0
           ELSE ResultWaits = 1 /\ ResultFormats = 1

\* Two result() calls of which the first waited for the run.
C2_Witness ==
    /\ TwoResultCalls
    /\ ~first_result[1].cached
    /\ first_result[1].calls = <<"wait_for_results">>
    /\ first_result[2].outcome = "ok"
    /\ Len(first_result[2].result_ret.val.results[1].data.memory) = MaxShots

\* C3.  submit() and cancel() raise the unsupported-operation error in every
\* state, with or without a cached result, return nothing and leave the
\* cache as it was.
C3_UnsupportedOps ==
    (last.op \in {"submit", "cancel"}) =>
        /\ last.outcome = "NotImplementedError"
        /\ ~last.result_ret.set
        /\ last.status_ret = "none"
        /\ last.cached = _result.set

\* cancel() called on a job whose result is cached.
C3_Witness ==
    /\ last.op = "cancel"
    /\ last.cached
    /\ last.outcome = "NotImplementedError"

\* The single result block of the structured result a result() call returned.
LastBlock == last.result_ret.val.results[1]

Occurrences(memory, k) == Cardinality({i \in DOMAIN memory : memory[i] = k})

RECURSIVE SumOver(_, _)
SumOver(counts, keys) ==
    IF keys = {} THEN 0
    ELSE LET k == CHOOSE x \in keys : TRUE
         IN counts[k] + SumOver(counts, keys \ {k})

\* C7.  Histogram correctness: in every result returned by result(), the keys
\* of counts are exactly the distinct strings of memory, each mapped to its
\* number of occurrences in memory; the counts add up to the reported shot
\* count, which is the number of memory strings.
C7_Histogram ==
    (last.op = "result" /\ last.outcome = "ok") =>
        LET memory == LastBlock.data.memory
            counts == LastBlock.data.counts
        IN /\ DOMAIN counts = {memory[i] : i \in DOMAIN memory}
           /\ \A k \in DOMAIN counts : counts[k] = Occurrences(memory, k)
           /\ SumOver(counts, DOMAIN counts) = LastBlock.shots
           /\ LastBlock.shots = Len(memory)
           /\ memory = _result.val

\* A returned histogram in which some bitstring occurs twice.
C7_Witness ==
    /\ last.op = "result"
    /\ last.outcome = "ok"
    /\ \E k \in DOMAIN LastBlock.data.counts : LastBlock.data.counts[k] = 2

\* C8.  Failed runs look like running ones: a status() call that polled a
\* record whose status is not ready returns RUNNING and leaves the cache
\* absent; and as long as the run has never been ready, the cache is absent,
\* no status() call has returned DONE and every status() call that returns
\* at all returns RUNNING.
C8_FailedLooksRunning ==
    /\ (last.op = "status" /\ last.polled \in RunStatuses \ {"ready"}) =>
           /\ last.outcome = "ok"
           /\ last.status_ret = "RUNNING"
           /\ _result = None
    /\ ~ever_ready =>
           /\ _result = None
           /\ ~status_done
           /\ (last.op = "status" /\ last.outcome = "ok") =>
                  last.status_ret = "RUNNING"

\* status() polled a failed run and answered RUNNING.
C8_Witness ==
    /\ last.op = "status"
    /\ last.polled = "failed"
    /\ last.status_ret = "RUNNING"
    /\ ~ever_ready

\* The job's state: DONE when a result is cached, RUNNING when none is.
JobState == IF _result.set THEN "DONE" ELSE "RUNNING"

\* C10.  Write-once cache and two-state machine: a cached result is what
\* status() and result() take for a cached result (never an empty list), a
\* status() call returns DONE exactly when it leaves the job DONE, and no
\* step of any operation changes or clears a cached result, so that the only
\* transition of the job's state is from RUNNING to DONE.
C10_WriteOnce ==
    /\ [](_result.set => truthy(_result))
    /\ []((last.op = "status" /\ last.outcome = "ok") =>
             (last.status_ret = JobState))
    /\ [][_result.set => (_result' = _result)]_vars

\* All four operations have been applied to a job whose result is cached.
C10_Witness ==
    /\ _result.set
    /\ last.op = "submit"
    /\ last.cached
    /\ last.after_done
    /\ Len(first_result) = 2

----------------------------------------------------------------------------
(* Properties of the reassembly (SpecFormat) *)

\* The raw map under reassembly: its entries' decoded keys and columns.
Entries == DOMAIN run_measurements

KeyOf(i) == from_string(run_measurements[i][1])

ColumnOf(i) == run_measurements[i][2]

\* The expected shot count: the job's recorded one, else the length of the
\* column of the map's first entry.
ExpectedShots ==
    IF "shots" \in DOMAIN metadata THEN metadata.shots ELSE Len(ColumnOf(1))

\* C4 as stated.  Shape validation: if some entry's column length differs
\* from shots, reassembly raises the shape-mismatch error, the error names
\* the key of an entry whose column length differs from shots, and no list
\* of bitstrings is returned.
C4_ShapeValidation ==
    (fmt.called /\ \E i \in Entries : Len(ColumnOf(i)) # ExpectedShots) =>
        /\ fmt.kind = "ValueError"
        /\ ~fmt.ret.set
        /\ fmt.key.set
        /\ \E i \in Entries : /\ Len(ColumnOf(i)) # ExpectedShots
                               /\ fmt.key.val = KeyOf(i)

\* The registers that appear in the raw map, and the width their keys give.
Regs == {KeyOf(i).creg_idx : i \in Entries}

Width(r) == KeyOf(CHOOSE i \in Entries : KeyOf(i).creg_idx = r).creg_len

RECURSIVE SumWidths(_)
SumWidths(R) ==
    IF R = {} THEN 0
    ELSE LET r == CHOOSE x \in R : TRUE
         IN Width(r) + 1 + SumWidths(R \ {r})

\* The number of characters before the group of register r: the groups of
\* the registers above it, each followed by one space.
Offset(r) == SumWidths({q \in Regs : q > r})

Digit(b) == IF b = 1 THEN "1" ELSE "0"

\* C5.  Ordering: when reassembly returns, there is one string per shot; it
\* holds one group per distinct creg_idx, the groups from the highest
\* creg_idx down to the lowest with exactly one space between two groups
\* and none elsewhere, and the bit of the entry (creg_idx, clbit_idx) stands
\* in its group at position creg_len - clbit_idx from the left, so that the
\* highest clbit_idx is leftmost and clbit_idx 0 rightmost.
C5_Ordering ==
    (fmt.called /\ fmt.kind = "ok") =>
        /\ Len(fmt.ret.val) = fmt.shots.val
        /\ \A s \in 1..fmt.shots.val :
              LET out == fmt.ret.val[s]
              IN /\ Len(out) = SumWidths(Regs) - 1
                 /\ \A p \in 1..Len(out) :
                       (out[p] = " ") <=> (\E r \in Regs : Offset(r) = p)
                 /\ \A i \in Entries :
                       LET mk == KeyOf(i)
                       IN out[Offset(mk.creg_idx) + mk.creg_len - mk.clbit_idx]
                              = Digit(ColumnOf(i)[s])

\* Register 1 with clbit 1 = 1 and clbit 0 = 0, register 0 = 1: "10 1".
C5_Witness ==
    /\ fmt.called
    /\ fmt.kind = "ok"
    /\ \E s \in 1..fmt.shots.val : fmt.ret.val[s] = <<"1", "0", " ", "1">>

\* A string cut at its spaces.
RECURSIVE Split(_)
Split(w) ==
    IF \A p \in 1..Len(w) : w[p] # " " THEN <<w>>
    ELSE LET p == CHOOSE q \in 1..Len(w) :
                     w[q] = " " /\ \A t \in 1..(q - 1) : w[t] # " "
         IN <<SubSeq(w, 1, p - 1)>> \o Split(SubSeq(w, p + 1, Len(w)))

\* The place of register r among the groups, counted from the left.
Rank(r) == 1 + Cardinality({q \in Regs : q > r})

\* C6.  Zero-fill: when reassembly returns, each shot's string has one group
\* per register of the raw map; the group of a register has exactly
\* creg_len bits; a bit position for which the raw map has no entry is 0 in
\* every shot, and a position that has an entry holds that entry's value
\* for the shot.
C6_ZeroFill ==
    (fmt.called /\ fmt.kind = "ok") =>
        \A s \in 1..fmt.shots.val :
           LET groups == Split(fmt.ret.val[s])
           IN /\ Len(groups) = Cardinality(Regs)
              /\ \A r \in Regs :
                    LET g == groups[Rank(r)]
                    IN /\ Len(g) = Width(r)
                       /\ \A b \in 0..(Width(r) - 1) :
                             LET here == {i \in Entries :
                                            /\ KeyOf(i).creg_idx = r
                                            /\ KeyOf(i).clbit_idx = b}
                             IN IF here = {}
                                THEN g[Width(r) - b] = "0"
                                ELSE \A i \in here :
                                        g[Width(r) - b] = Digit(ColumnOf(i)[s])

\* Only clbit 0 of the two-bit register is measured, and as 1: "01".
C6_Witness ==
    /\ fmt.called
    /\ fmt.kind = "ok"
    /\ Len(run_measurements) = 1
    /\ KeyOf(1) = [creg_len |-> 2, creg_idx |-> 1, clbit_idx |-> 0]
    /\ fmt.ret.val = [s \in 1..MaxShots |-> <<"0", "1">>]

\* C9 as stated.  Shot-count source: when the metadata records a shot count,
\* reassembly takes it as shots whatever the raw map holds, an empty map
\* included; when it records none, shots is the length of a column of the
\* raw map.
C9_ShotsSource ==
    fmt.called =>
        IF "shots" \in DOMAIN metadata
        THEN fmt.shots = Some(metadata.shots)
        ELSE (Entries # {}) =>
                \E i \in Entries : fmt.shots = Some(Len(ColumnOf(i)))

----------------------------------------------------------------------------
(* Further properties of the job (Spec) *)

\* C11.  An error raised by the client in get_run (status()) or in
\* wait_for_results (result()) reaches the caller as the client raised it;
\* the call was attempted exactly once in that invocation, no reassembly
\* pass ran, nothing was returned, and the cache is absent afterwards, so
\* that the job is still RUNNING.
C11_ClientErrorPropagates ==
    (last.outcome = "ClientError") =>
        /\ last.op \in {"status", "result"}
        /\ last.calls = IF last.op = "status" THEN <<"get_run">>
                        ELSE <<"wait_for_results">>
        /\ last.formats = 0
        /\ last.status_ret = "none"
        /\ ~last.result_ret.set
        /\ ~last.cached
        /\ _result = None

\* result() met a client error although the run was ready.
C11_Witness ==
    /\ last.op = "result"
    /\ last.outcome = "ClientError"
    /\ run_status = "ready"
    /\ _result = None

\* C12.  status() never blocks: a status() invocation makes at most one
\* client call, and that call is get_run, never wait_for_results; a result()
\* invocation on a job without a cached result makes exactly one
\* wait_for_results call and no get_run call, whether it returns or raises.
C12_StatusNeverBlocks ==
    /\ (last.op = "status") => (last.calls \in {<<>>, <<"get_run">>})
    /\ (last.op = "status" /\ ~last.cached) => (last.calls = <<"get_run">>)
    /\ (last.op = "result" /\ ~last.cached) =>
           (last.calls = <<"wait_for_results">>)

\* status() polled a pending run with get_run and returned RUNNING at once.
C12_Witness ==
    /\ last.op = "status"
    /\ last.calls = <<"get_run">>
    /\ last.polled = "pending"
    /\ last.status_ret = "RUNNING"

----------------------------------------------------------------------------
\* The operation that ran last failed on a column of the wrong shape.
ShapeMismatch == last.op \in {"status", "result"} /\ last.outcome = "ValueError"

\* C14: when reassembly fails with a shape mismatch inside status() or
\* result(), nothing is returned and the cache remains absent; the status()
\* call that comes next polls get_run again, and the result() call that comes
\* next waits again and returns nothing it did not reassemble itself.
C14_FailureLeavesNoTrace ==
    /\ [](ShapeMismatch =>
            /\ _result = None
            /\ ~last.cached
            /\ last.status_ret = "none"
            /\ ~last.result_ret.set
            /\ last.formats = 1)
    /\ [][(ShapeMismatch /\ status) =>
            (last'.calls = <<"get_run">> /\ last'.status_ret # "DONE")]_vars
    /\ [][(ShapeMismatch /\ result) =>
            (last'.calls = <<"wait_for_results">> /\ ~last'.result_ret.set)]_vars

\* result() failed on a shape mismatch, and the result() call after it waited
\* again and failed the same way.
C14_Witness ==
    /\ Len(first_result) = 2
    /\ first_result[1].outcome = "ValueError"
    /\ first_result[2].outcome = "ValueError"
    /\ first_result[2].calls = <<"wait_for_results">>
    /\ ShapeMismatch
    /\ _result = None

\* The result that the record of the run reassembles to, the record that any
\* status() call polls once the run is ready.
PolledResult == result_dict(_format_iqm_result(metadata, run_measurements).ret.val)

\* C15: status() and result() share one cache. A result() call that succeeded
\* leaves a cache that holds (zero shots included: a list of no rows would not
\* count as held), what is cached stays, and a status() call over it returns
\* DONE with no client call; after a status() call has returned DONE, a
\* result() call returns the result of the polled record with no client call.
C15_SharedCache ==
    /\ []((last.op = "result" /\ last.outcome = "ok") => truthy(_result))
    /\ [][truthy(_result) => (_result' = _result)]_vars
    /\ [][(truthy(_result) /\ status) =>
            /\ last'.outcome = "ok"
            /\ last'.status_ret = "DONE"
            /\ last'.calls = <<>>
            /\ last'.formats = 0]_vars
    /\ [][(status_done /\ result) =>
            /\ last'.outcome = "ok"
            /\ last'.result_ret = Some(PolledResult)
            /\ last'.calls = <<>>
            /\ last'.formats = 0]_vars

\* The first result() call waited and succeeded, and the status() call that
\* ran last returned DONE from the cache without asking the client.
C15_Witness ==
    /\ Len(first_result) = 1
    /\ first_result[1].outcome = "ok"
    /\ first_result[1].calls = <<"wait_for_results">>
    /\ last.op = "status"
    /\ last.status_ret = "DONE"
    /\ last.calls = <<>>
    /\ ~last.after_done

(* Properties of polling (SpecPoll) *)

\* Every entry of the run's raw map holds exactly as many values as the job
\* has shots.
WellShaped ==
    /\ (run_measurements # <<>>) \/ ("shots" \in DOMAIN metadata)
    /\ \A i \in DOMAIN run_measurements :
          Len(run_measurements[i][2]) =
              IF "shots" \in DOMAIN metadata THEN metadata.shots
              ELSE Len(run_measurements[1][2])

\* C16: if the run's measurements are well shaped and the run becomes ready
\* and stays ready, a status() call eventually returns DONE.
C16_PollingLiveness ==
    (WellShaped /\ <>[](run_status = "ready")) =>
        <>(last.op = "status" /\ last.status_ret = "DONE")

(* Further properties of the reassembly (SpecFormat) *)

\* The raw map is well formed: an expected shot count exists and every entry
\* holds exactly that many values.
WellFormed ==
    /\ (Entries # {}) \/ ("shots" \in DOMAIN metadata)
    /\ \A i \in Entries : Len(ColumnOf(i)) = ExpectedShots

\* The raw map cut down to shot s: every entry keeps its value for s only.
OnlyShot(s) ==
    [i \in Entries |-> <<run_measurements[i][1], <<ColumnOf(i)[s]>> >>]

\* C13 as stated.  Reassembly succeeds on well-formed input: when every
\* entry holds exactly shots values, reassembly does not fail and returns
\* exactly shots strings, and the string at index s is built from the values
\* recorded for shot s only: it is the string that reassembling shot s alone
\* gives.
C13_WellFormedSucceeds ==
    (fmt.called /\ WellFormed) =>
        /\ fmt.kind = "ok"
        /\ fmt.ret.set
        /\ Len(fmt.ret.val) = ExpectedShots
        /\ \A s \in 1..ExpectedShots :
              fmt.ret.val[s] =
                  _format_iqm_result([shots |-> 1], OnlyShot(s)).ret.val[1]


\* The orders in which the n entries of a raw map can be visited.
Orders(n) == { p \in [1..n -> 1..n] : \A i, j \in 1..n : (i # j) => (p[i] # p[j]) }

\* The raw map with its entries in the order p.
Reordered(p) == [i \in DOMAIN run_measurements |-> run_measurements[p[i]]]

\* C17: reassembly returns the same list, or fails with the same kind of
\* error, in whatever order the entries of the raw map are visited, hence
\* whichever column gives the shot count when the metadata has none; and it
\* changes neither the job's cache nor the raw map.
C17_OrderIndependent ==
    /\ [](fmt.called =>
            \A p \in Orders(Len(run_measurements)) :
               LET f == _format_iqm_result(metadata, Reordered(p))
               IN f.kind = fmt.kind /\ f.ret = fmt.ret)
    /\ [][format_call =>
            (_result' = _result /\ run_measurements' = run_measurements)]_vars

\* Reassembly ran without a recorded shot count on a map whose first two
\* columns differ in length, so that the column picked decides the count.
C17_Witness ==
    /\ fmt.called
    /\ "shots" \notin DOMAIN metadata
    /\ Len(run_measurements) = Cardinality(KeyStrings)
    /\ Len(ColumnOf(1)) > 0
    /\ Len(ColumnOf(2)) > Len(ColumnOf(1))
    /\ fmt.kind = "ValueError"

====
